---- MODULE Spec2Model ----
(***************************************************************************)
(* Model of pokeIV.py: the inventory snapshot (get_pokemon), the selection *)
(* of the pokemon to keep (get_best_pokemon / get_above_iv), the candy     *)
(* economics (get_unique_counts, get_evolve_counts, get_needed_counts) and *)
(* the evolve / transfer loops of main().                                  *)
(*                                                                         *)
(* The inventory payload is taken as get_pokemon decodes it: a sequence of *)
(* "pokemon_data" nodes and a sequence of "pokemon_family" nodes, in the   *)
(* order the JSON object hook meets them.  The reference tables names.tsv, *)
(* families.tsv and evolves.tsv are files outside the repository; a small  *)
(* stand-in catalog is used.                                               *)
(*                                                                         *)
(* The script runs under "python": `/` on two ints floors under Python 2   *)
(* and is true division under Python 3.  trueDiv records which interpreter *)
(* runs the script; numbers are exact rationals [n, d].                    *)
(***************************************************************************)
EXTENDS Integers, Sequences, FiniteSets, TLC

VARIABLES
    trueDiv,      \* TRUE: `/` is true division (Python 3); FALSE: floor (Python 2)
    args,         \* init_config: the options of the command line (parse_args)
    load,         \* init_config: the options of config.json
    config,       \* the parsed configuration (init_config)
    evolves_tsv,  \* evolves.tsv: species id -> candy cost of one evolution (0: none)
    payload,      \* the decoded inventory: [pokemon_data, pokemon_family]
    pc,           \* position of main()
    error,        \* the exception that ended the run, "" if none
    pokemon,      \* main's list `pokemon`
    best,         \* main's list `best`
    extras,       \* main's list `extras`
    uniques,      \* dict uniques: species id -> count
    evolves,      \* dict evolves: species id -> count (plus the key "total")
    needed,       \* dict needed: species id -> count
    ec_i,         \* get_evolve_counts: index of p in `for p in pokemon`
    extraCandy,   \* get_evolve_counts: local extraCandy
    totalCandy,   \* get_evolve_counts: local totalCandy
    total,        \* get_evolve_counts: local total
    evolved,      \* evolve loop: flag `evolved`
    count,        \* evolve loop: `count`
    snap,         \* evolve loop: the copy pokemon[:] the for loop walks
    ei,           \* evolve loop: index into snap
    ti,           \* transfer loop: index into extras
    calls         \* the remote mutations issued so far: [op, id, res]

vars == <<trueDiv, args, load, config, evolves_tsv, payload, pc, error, pokemon, best, extras,
          uniques, evolves, needed, ec_i, extraCandy, totalCandy, total,
          evolved, count, snap, ei, ti, calls>>

(***************************************************************************)
(* Bounds of the model.                                                    *)
(***************************************************************************)
\* most pokemon_data nodes in a payload of the full run
MaxNodes == 3
\* most pokemon in a list handed to the selection alone
MaxSelect == 3
\* largest candy balance handed to get_evolve_counts alone
MaxCandy == 30
\* largest evolution cost handed to get_evolve_counts alone
MaxCost == 5
\* a loop of get_evolve_counts that never ends counts without bound: its
\* numbers stop growing here
CandyCap == 80
\* finest grid of a float in the model: a rational with a larger denominator
\* is rounded to the nearest multiple of 1/FloatDen
FloatDen == 4096
\* most remote mutations of one run that do not succeed
MaxFailures == 1
\* largest max_evolutions of a run
MaxEvolutions == 2

(***************************************************************************)
(* Numbers: exact rationals n/d in lowest terms, d >= 1.                   *)
(***************************************************************************)
GCD[a \in Nat, b \in Nat] == IF b = 0 THEN a ELSE GCD[b, a % b]

Abs(n) == IF n < 0 THEN -n ELSE n

Norm(n, d) == LET g == GCD[Abs(n), d] IN [n |-> n \div g, d |-> d \div g]

Num(i) == [n |-> i, d |-> 1]

RAdd(a, b) == Norm(a.n * b.d + b.n * a.d, a.d * b.d)

RSub(a, b) == Norm(a.n * b.d - b.n * a.d, a.d * b.d)

RGeq(a, b) == a.n * b.d >= b.n * a.d

RGt(a, b) == a.n * b.d > b.n * a.d

Floor(a) == a.n \div a.d

\* a float keeps finitely many digits
Round(a) ==
    IF a.d <= FloatDen THEN a
    ELSE Norm((2 * a.n * FloatDen + a.d) \div (2 * a.d), FloatDen)

\* Python's a / c for a positive int c
PyDivFloor(a, c) == Num(Floor(a) \div c)

PyDivTrue(a, c) == Round(Norm(a.n, a.d * c))

PyDiv(a, c) == IF trueDiv THEN PyDivTrue(a, c) ELSE PyDivFloor(a, c)

\* numbers of a loop that never ends stop growing at CandyCap
Capped(a) == IF RGeq(a, Num(CandyCap)) THEN Num(CandyCap) ELSE a

(***************************************************************************)
(* Sequences.                                                              *)
(***************************************************************************)
Range(s) == {s[i] : i \in 1..Len(s)}

RECURSIVE SeqsUpTo(_, _)
SeqsUpTo(S, n) ==
    IF n = 0 THEN {<<>>}
    ELSE LET shorter == SeqsUpTo(S, n - 1)
         IN shorter \cup {Append(s, x) : s \in {t \in shorter : Len(t) = n - 1}, x \in S}

\* list.remove(x): the first element equal to x goes
Remove(s, x) ==
    LET i == CHOOSE k \in 1..Len(s) : s[k] = x /\ \A j \in 1..(k - 1) : s[j] # x
    IN SubSeq(s, 1, i - 1) \o SubSeq(s, i + 1, Len(s))

Perms(S) == {s \in SeqsUpTo(S, Cardinality(S)) : Len(s) = Cardinality(S) /\ Range(s) = S}

(***************************************************************************)
(* The reference catalog (names.tsv, families.tsv, evolves.tsv).           *)
(*   1: a base form that evolves      2: its evolution, family 1           *)
(*   3: a base form that never evolves                                     *)
(*   8: in names.tsv and families.tsv, missing from evolves.tsv            *)
(*   9: in none of the tables                                              *)
(***************************************************************************)
names == (1 :> "one") @@ (2 :> "two") @@ (3 :> "three") @@ (8 :> "eight")

families == (1 :> 1) @@ (2 :> 1) @@ (3 :> 3) @@ (8 :> 8)

EvolvesTsv(c) == (1 :> c) @@ (2 :> 0) @@ (3 :> 0)

(***************************************************************************)
(* get_pokemon                                                             *)
(***************************************************************************)
\* node[k] if "k" in node else 0
Field(node, k) == IF k \in DOMAIN node THEN node[k] ELSE 0

\* _add_pokemon raises KeyError on a species a table lacks; the cost is read
\* before the pokemon is appended
AddPokemonRaises(node) ==
    \/ node.pokemon_id \notin DOMAIN names
    \/ node.pokemon_id \notin DOMAIN families
    \/ node.pokemon_id \notin DOMAIN evolves_tsv

\* the object _add_pokemon builds; cost 0 stands for "no attribute cost"
AddPokemon(node) ==
    [id      |-> node.id,
     number  |-> node.pokemon_id,
     family  |-> families[node.pokemon_id],
     stamina |-> Field(node, "individual_stamina"),
     attack  |-> Field(node, "individual_attack"),
     defense |-> Field(node, "individual_defense"),
     cp      |-> node.cp,
     cost    |-> IF evolves_tsv[node.pokemon_id] > 0 THEN evolves_tsv[node.pokemon_id] ELSE 0,
     candy   |-> 0]

\* _find_node: the KeyError of _add_pokemon is swallowed with that of a node
\* without "pokemon_data", so the record is left out
RECURSIVE CollectData(_, _)
CollectData(nodes, k) ==
    IF k = 0 THEN <<>>
    ELSE IF AddPokemonRaises(nodes[k]) THEN CollectData(nodes, k - 1)
         ELSE Append(CollectData(nodes, k - 1), AddPokemon(nodes[k]))

\* _add_candy and dict(candy): the last record of a family wins
CandyDict(fams) ==
    [f \in {fams[i].family_id : i \in 1..Len(fams)} |->
        LET last == CHOOSE i \in 1..Len(fams) :
                        /\ fams[i].family_id = f
                        /\ \A j \in (i + 1)..Len(fams) : fams[j].family_id # f
        IN Field(fams[last], "candy")]

\* d.candy = candy[str(d.family)] raises KeyError for a family without record
GetPokemonRaises(pl) ==
    LET data == CollectData(pl.pokemon_data, Len(pl.pokemon_data))
    IN \E i \in 1..Len(data) : data[i].family \notin DOMAIN CandyDict(pl.pokemon_family)

get_pokemon(pl) ==
    LET data == CollectData(pl.pokemon_data, Len(pl.pokemon_data))
        candy == CandyDict(pl.pokemon_family)
    IN [i \in 1..Len(data) |-> [data[i] EXCEPT !.candy = candy[data[i].family]]]

(***************************************************************************)
(* iv and the sorts on it                                                  *)
(***************************************************************************)
\* pok.iv = ((stamina + attack + defense) / float(45)) * 100, kept as the sum:
\* iv = IvSum * 100 / 45
IvSum(p) == p.stamina + p.attack + p.defense

\* p.iv >= float(ivmin)
IvAtLeast(p, ivmin) == IvSum(p) * 100 >= 45 * ivmin

\* x put into the sorted s before the first element it sorts strictly before
InsertByIv(x, s, reverse) ==
    LET later == {i \in 1..Len(s) :
                     IF reverse THEN IvSum(x) > IvSum(s[i]) ELSE IvSum(x) < IvSum(s[i])}
        at == IF later = {} THEN Len(s) + 1
              ELSE CHOOSE i \in later : \A j \in later : i <= j
    IN SubSeq(s, 1, at - 1) \o <<x>> \o SubSeq(s, at, Len(s))

RECURSIVE SortPrefix(_, _, _)
SortPrefix(s, k, reverse) ==
    IF k = 0 THEN <<>>
    ELSE InsertByIv(s[k], SortPrefix(s, k - 1, reverse), reverse)

\* list.sort(key=lambda x: x.iv, reverse=...): stable
SortByIv(s, reverse) == SortPrefix(s, Len(s), reverse)

(***************************************************************************)
(* Selection: get_above_iv and get_best_pokemon                            *)
(***************************************************************************)
\* get_above_iv with the test of line 301 made strict
get_above_iv_strict(sorted, ivmin) ==
    SelectSeq(sorted, LAMBDA p : IvSum(p) * 100 > 45 * ivmin)

\* get_above_iv, on the list already sorted by iv
get_above_iv(sorted, ivmin) == SelectSeq(sorted, LAMBDA p : IvAtLeast(p, ivmin))

\* get_best_pokemon after the first k pokemon of the sorted list.  The third
\* branch reads `config.cp_override`; config is a local of main(), so reaching
\* it raises NameError.
RECURSIVE BestWalk(_, _, _)
BestWalk(sorted, k, ivmin) ==
    IF k = 0 THEN [best |-> <<>>, raised |-> FALSE]
    ELSE LET prev == BestWalk(sorted, k - 1, ivmin)
             p == sorted[k]
         IN IF prev.raised THEN prev
            ELSE IF ~ \E i \in 1..Len(prev.best) : prev.best[i].number = p.number
                 THEN [prev EXCEPT !.best = Append(prev.best, p)]
            ELSE IF IvAtLeast(p, ivmin)
                 THEN [prev EXCEPT !.best = Append(prev.best, p)]
            ELSE [prev EXCEPT !.raised = TRUE]

get_best_pokemon(sorted, ivmin) == BestWalk(sorted, Len(sorted), ivmin)

(***************************************************************************)
(* Economics: get_unique_counts, get_needed_counts                         *)
(***************************************************************************)
get_unique_counts(pok) ==
    [id \in {pok[i].number : i \in {j \in 1..Len(pok) : pok[j].number = pok[j].family}} |->
        Cardinality({i \in 1..Len(pok) : pok[i].number = id /\ pok[i].number = pok[i].family})]

\* a get_needed_counts with the operands the wrong way round
get_needed_counts_swapped(pok, uniq, evol) ==
    [id \in {pok[i].number : i \in 1..Len(pok)} \cap DOMAIN evol \cap DOMAIN uniq |->
        RSub(Num(uniq[id]), evol[id])]

get_needed_counts(pok, uniq, evol) ==
    [id \in {pok[i].number : i \in 1..Len(pok)} \cap DOMAIN evol \cap DOMAIN uniq |->
        RSub(evol[id], Num(uniq[id]))]

(***************************************************************************)
(* The remote service: api.evolve_pokemon / api.release_pokemon + api.call *)
(* The call succeeds ("ok"), comes back with a failure that main() never   *)
(* looks at ("failed"), or raises ("raised").                              *)
(***************************************************************************)
Failures == Cardinality({i \in 1..Len(calls) : calls[i].res # "ok"})

Outcomes == IF Failures < MaxFailures THEN {"ok", "failed", "raised"} ELSE {"ok"}

(***************************************************************************)
(* main()                                                                  *)
(***************************************************************************)
\* line 137: pokemon = get_pokemon(response_dict)
GetPokemon ==
    /\ pc = "get_pokemon"
    /\ IF GetPokemonRaises(payload)
       THEN /\ pc' = "crashed"
            /\ error' = "KeyError"
            /\ UNCHANGED pokemon
       ELSE /\ pokemon' = get_pokemon(payload)
            /\ pc' = "select"
            /\ UNCHANGED error
    /\ UNCHANGED <<trueDiv, args, load, config, evolves_tsv, payload, best, extras, uniques, evolves,
                   needed, ec_i, extraCandy, totalCandy, total, evolved, count, snap,
                   ei, ti, calls>>

\* lines 138-140: no pokemon, main returns
NoPokemon ==
    /\ pc = "select"
    /\ Len(pokemon) = 0
    /\ pc' = "done"
    /\ UNCHANGED <<trueDiv, args, load, config, evolves_tsv, payload, error, pokemon, best, extras,
                   uniques, evolves, needed, ec_i, extraCandy, totalCandy, total,
                   evolved, count, snap, ei, ti, calls>>

\* lines 142-148 with hard_minimum: best = get_above_iv(...), extras = the rest,
\* in the order of a set of objects (any order)
SelectAboveIv ==
    /\ pc = "select"
    /\ Len(pokemon) > 0
    /\ config.hard_minimum
    /\ LET sorted == SortByIv(pokemon, TRUE)
           b == get_above_iv(sorted, config.minimumIV)
       IN /\ pokemon' = sorted
          /\ best' = b
          /\ extras' \in Perms(Range(sorted) \ Range(b))
    /\ pc' = "unique_counts"
    /\ UNCHANGED <<trueDiv, args, load, config, evolves_tsv, payload, error, uniques, evolves,
                   needed, ec_i, extraCandy, totalCandy, total, evolved, count, snap,
                   ei, ti, calls>>

\* lines 142-148 without hard_minimum: best = get_best_pokemon(...)
SelectBest ==
    /\ pc = "select"
    /\ Len(pokemon) > 0
    /\ ~ config.hard_minimum
    /\ LET sorted == SortByIv(pokemon, TRUE)
           r == get_best_pokemon(sorted, config.minimumIV)
       IN /\ pokemon' = sorted
          /\ IF r.raised
             THEN /\ pc' = "crashed"
                  /\ error' = "NameError"
                  /\ UNCHANGED <<best, extras>>
             ELSE /\ best' = r.best
                  /\ extras' \in Perms(Range(sorted) \ Range(r.best))
                  /\ pc' = "unique_counts"
                  /\ UNCHANGED error
    /\ UNCHANGED <<trueDiv, args, load, config, evolves_tsv, payload, uniques, evolves,
                   needed, ec_i, extraCandy, totalCandy, total, evolved, count, snap,
                   ei, ti, calls>>

\* line 160: uniques = get_unique_counts(pokemon); get_evolve_counts starts
UniqueCounts ==
    /\ pc = "unique_counts"
    /\ uniques' = get_unique_counts(pokemon)
    /\ evolves' = <<>>
    /\ total' = Num(0)
    /\ ec_i' = 1
    /\ pc' = "evolve_counts"
    /\ UNCHANGED <<trueDiv, args, load, config, evolves_tsv, payload, error, pokemon, best, extras,
                   needed, extraCandy, totalCandy, evolved, count, snap, ei, ti, calls>>

\* get_evolve_counts, lines 227-230: the next p of `for p in pokemon`
EvolveCountsFor ==
    /\ pc = "evolve_counts"
    /\ ec_i <= Len(pokemon)
    /\ LET p == pokemon[ec_i]
       IN IF p.number = p.family /\ p.number \notin DOMAIN evolves /\ p.cost > 0
          THEN LET extra == RAdd(PyDiv(Num(p.candy), p.cost), PyDiv(Num(p.candy), p.cost))
               IN /\ extraCandy' = extra
                  /\ totalCandy' = RAdd(Num(p.candy), extra)
                  /\ pc' = "ec_while"
                  /\ UNCHANGED ec_i
          ELSE /\ ec_i' = ec_i + 1
               /\ UNCHANGED <<extraCandy, totalCandy, pc>>
    /\ UNCHANGED <<trueDiv, args, load, config, evolves_tsv, payload, error, pokemon, best, extras,
                   uniques, evolves, needed, total, evolved, count, snap, ei, ti, calls>>

\* get_evolve_counts, lines 231-233: one turn of the while loop
EvolveCountsWhile ==
    /\ pc = "ec_while"
    /\ LET p == pokemon[ec_i]
       IN /\ RGeq(PyDiv(extraCandy, p.cost), Num(1))
          /\ totalCandy' = Capped(RAdd(totalCandy, Num(2)))
          /\ extraCandy' = Capped(RAdd(PyDiv(extraCandy, p.cost), Num(2)))
    /\ UNCHANGED <<trueDiv, args, load, config, evolves_tsv, payload, pc, error, pokemon, best, extras,
                   uniques, evolves, needed, ec_i, total, evolved, count, snap, ei, ti,
                   calls>>

\* get_evolve_counts, lines 231 and 234-236: the while loop ends, the count is kept
EvolveCountsStore ==
    /\ pc = "ec_while"
    /\ LET p == pokemon[ec_i]
           n == PyDiv(totalCandy, p.cost)
       IN /\ ~ RGeq(PyDiv(extraCandy, p.cost), Num(1))
          /\ IF RGt(n, Num(0))
             THEN /\ evolves' = (p.number :> n) @@ evolves
                  /\ total' = RAdd(total, n)
             ELSE UNCHANGED <<evolves, total>>
    /\ ec_i' = ec_i + 1
    /\ pc' = "evolve_counts"
    /\ UNCHANGED <<trueDiv, args, load, config, evolves_tsv, payload, error, pokemon, best, extras,
                   uniques, needed, extraCandy, totalCandy, evolved, count, snap, ei, ti,
                   calls>>

\* get_evolve_counts returns (evolves["total"] is kept in total); line 162:
\* needed = get_needed_counts(pokemon, uniques, evolves)
NeededCounts ==
    /\ pc = "evolve_counts"
    /\ ec_i > Len(pokemon)
    /\ needed' = get_needed_counts(pokemon, uniques, evolves)
    /\ pc' = "evolve_start"
    /\ UNCHANGED <<trueDiv, args, load, config, evolves_tsv, payload, error, pokemon, best, extras,
                   uniques, evolves, ec_i, extraCandy, totalCandy, total, evolved, count,
                   snap, ei, ti, calls>>

\* a line 182 that lets every pokemon through
Evolvable_always(p) == p.id > 0

\* an individual may be evolved: line 182
Evolvable(p) ==
    IF p.number \in DOMAIN evolves
    THEN RGt(RSub(evolves[p.number], needed[p.number]), Num(0))
    ELSE FALSE

\* lines 173-177
EvolveStart ==
    /\ pc = "evolve_start"
    /\ IF config.evolve
       THEN /\ pokemon' = SortByIv(pokemon, TRUE)
            /\ evolved' = TRUE
            /\ count' = 0
            /\ pc' = "evolve_while"
       ELSE /\ pc' = "transfer_start"
            /\ UNCHANGED <<pokemon, evolved, count>>
    /\ UNCHANGED <<trueDiv, args, load, config, evolves_tsv, payload, error, best, extras, uniques,
                   evolves, needed, ec_i, extraCandy, totalCandy, total, snap, ei, ti,
                   calls>>

\* lines 178-180: the while test, and the for loop starts on a copy of pokemon
EvolveWhile ==
    /\ pc = "evolve_while"
    /\ IF evolved /\ count < config.max_evolutions
       THEN /\ evolved' = FALSE
            /\ snap' = pokemon
            /\ ei' = 1
            /\ pc' = "evolve_for"
       ELSE /\ pc' = "transfer_start"
            /\ UNCHANGED <<evolved, snap, ei>>
    /\ UNCHANGED <<trueDiv, args, load, config, evolves_tsv, payload, error, pokemon, best, extras,
                   uniques, evolves, needed, ec_i, extraCandy, totalCandy, total, count,
                   ti, calls>>

\* lines 180-182: p is not to be evolved
EvolveSkip ==
    /\ pc = "evolve_for"
    /\ ei <= Len(snap)
    /\ ~ Evolvable(snap[ei])
    /\ ei' = ei + 1
    /\ UNCHANGED <<trueDiv, args, load, config, evolves_tsv, payload, pc, error, pokemon, best, extras,
                   uniques, evolves, needed, ec_i, extraCandy, totalCandy, total, evolved,
                   count, snap, ti, calls>>

\* lines 183-191: p is evolved; what api.call() returns is not looked at
EvolveCall ==
    /\ pc = "evolve_for"
    /\ ei <= Len(snap)
    /\ Evolvable(snap[ei])
    /\ \E res \in Outcomes :
        LET p == snap[ei]
        IN /\ calls' = Append(calls, [op |-> "evolve", id |-> p.id, res |-> res])
           /\ IF res = "raised"
              THEN /\ pc' = "crashed"
                   /\ error' = "RemoteError"
                   /\ UNCHANGED <<evolves, uniques, pokemon, evolved, count, ei>>
              ELSE /\ evolves' = [evolves EXCEPT ![p.number] = RSub(@, Num(1))]
                   /\ uniques' = [uniques EXCEPT ![p.number] = @ - 1]
                   /\ pokemon' = Remove(pokemon, p)
                   /\ evolved' = TRUE
                   /\ count' = count + 1
                   /\ ei' = ei + 1
                   /\ UNCHANGED <<pc, error>>
    /\ UNCHANGED <<trueDiv, args, load, config, evolves_tsv, payload, best, extras, needed, ec_i,
                   extraCandy, totalCandy, total, snap, ti>>

\* the for loop of line 180 is through
EvolveForEnd ==
    /\ pc = "evolve_for"
    /\ ei > Len(snap)
    /\ pc' = "evolve_while"
    /\ UNCHANGED <<trueDiv, args, load, config, evolves_tsv, payload, error, pokemon, best, extras,
                   uniques, evolves, needed, ec_i, extraCandy, totalCandy, total, evolved,
                   count, snap, ei, ti, calls>>

\* lines 195-197 walking the whole list in place of extras
TransferStart_whole_list ==
    /\ pc = "transfer_start"
    /\ extras' = SortByIv(best \o extras, FALSE)
    /\ IF config.transfer
       THEN /\ ti' = 1
            /\ pc' = "transfer_for"
       ELSE /\ pc' = "done"
            /\ UNCHANGED ti
    /\ UNCHANGED <<trueDiv, args, load, config, evolves_tsv, payload, error, pokemon, best,
                   uniques, evolves, needed, ec_i, extraCandy, totalCandy, total, evolved,
                   count, snap, ei, calls>>

\* lines 195-197
TransferStart ==
    /\ pc = "transfer_start"
    /\ extras' = SortByIv(extras, FALSE)
    /\ IF config.transfer
       THEN /\ ti' = 1
            /\ pc' = "transfer_for"
       ELSE /\ pc' = "done"
            /\ UNCHANGED ti
    /\ UNCHANGED <<trueDiv, args, load, config, evolves_tsv, payload, error, pokemon, best, uniques,
                   evolves, needed, ec_i, extraCandy, totalCandy, total, evolved, count,
                   snap, ei, calls>>

\* a line 200 that lets every extra through
Transferable_always(p) == p.id > 0

\* a line 200 that compares the wrong way round
Transferable_flipped(p) ==
    IF p.number \notin DOMAIN evolves THEN TRUE
    ELSE IF p.number \notin DOMAIN uniques THEN TRUE
    ELSE RGt(evolves[p.number], Num(uniques[p.number]))

\* an extra may be transferred: line 200
Transferable(p) ==
    IF p.number \notin DOMAIN evolves THEN TRUE
    ELSE IF p.number \notin DOMAIN uniques THEN TRUE
    ELSE RGt(Num(uniques[p.number]), evolves[p.number])

\* lines 197-200: p is kept
TransferSkip ==
    /\ pc = "transfer_for"
    /\ ti <= Len(extras)
    /\ ~ Transferable(extras[ti])
    /\ ti' = ti + 1
    /\ UNCHANGED <<trueDiv, args, load, config, evolves_tsv, payload, pc, error, pokemon, best, extras,
                   uniques, evolves, needed, ec_i, extraCandy, totalCandy, total, evolved,
                   count, snap, ei, calls>>

\* lines 201-205: p is released; uniques[id] raises KeyError for a species
\* get_unique_counts never counted
TransferCall ==
    /\ pc = "transfer_for"
    /\ ti <= Len(extras)
    /\ Transferable(extras[ti])
    /\ \E res \in Outcomes :
        LET p == extras[ti]
        IN /\ calls' = Append(calls, [op |-> "release", id |-> p.id, res |-> res])
           /\ IF res = "raised"
              THEN /\ pc' = "crashed"
                   /\ error' = "RemoteError"
                   /\ UNCHANGED <<uniques, ti>>
              ELSE IF p.number \notin DOMAIN uniques
              THEN /\ pc' = "crashed"
                   /\ error' = "KeyError"
                   /\ UNCHANGED <<uniques, ti>>
              ELSE /\ uniques' = [uniques EXCEPT ![p.number] = @ - 1]
                   /\ ti' = ti + 1
                   /\ UNCHANGED <<pc, error>>
    /\ UNCHANGED <<trueDiv, args, load, config, evolves_tsv, payload, pokemon, best, extras, evolves,
                   needed, ec_i, extraCandy, totalCandy, total, evolved, count, snap, ei>>

\* the for loop of line 197 is through: main returns
TransferForEnd ==
    /\ pc = "transfer_for"
    /\ ti > Len(extras)
    /\ pc' = "done"
    /\ UNCHANGED <<trueDiv, args, load, config, evolves_tsv, payload, error, pokemon, best, extras,
                   uniques, evolves, needed, ec_i, extraCandy, totalCandy, total, evolved,
                   count, snap, ei, ti, calls>>

(***************************************************************************)
(* Inputs                                                                  *)
(***************************************************************************)
\* the substats of a node: the service leaves out a substat that is 0
IVZero == [cp |-> 10]

IVLow == [cp |-> 10, individual_stamina |-> 4, individual_attack |-> 5]

IVMid == [cp |-> 10, individual_stamina |-> 9, individual_attack |-> 3, individual_defense |-> 15]

IVHigh == [cp |-> 10, individual_stamina |-> 12, individual_attack |-> 12, individual_defense |-> 12]

Shapes(species, ivs) == {("pokemon_id" :> sp) @@ iv : sp \in species, iv \in ivs}

\* the nodes come species by species
BySpecies(s) == \A i \in 1..(Len(s) - 1) : s[i].pokemon_id <= s[i + 1].pokemon_id

\* the remote id of a node: its place in the payload
WithIds(s) == [i \in 1..Len(s) |-> ("id" :> i) @@ s[i]]

\* the family records: family 1 with b candy (no "candy" field for 0), family 3
Families(b) ==
    IF b = 0 THEN <<[family_id |-> 1], [family_id |-> 3]>>
    ELSE <<[family_id |-> 1, candy |-> b], [family_id |-> 3]>>

\* init_config: the options main() reads.  minimumIV defaults to 101;
\* cp_override is the empty set for None, else the set of the one number given
Configs(hm, ev, tr, caps, ivmins, cps) ==
    {[hard_minimum |-> h, evolve |-> e, transfer |-> t, max_evolutions |-> m,
      minimumIV |-> iv, cp_override |-> cp] :
        h \in hm, e \in ev, t \in tr, m \in caps, iv \in ivmins, cp \in cps}

\* the options are taken as init_config left them in config
OptionsParsed == args = <<>> /\ load = <<>>

Idle ==
    /\ error = ""
    /\ best = <<>>
    /\ extras = <<>>
    /\ uniques = <<>>
    /\ evolves = <<>>
    /\ needed = <<>>
    /\ ec_i = 0
    /\ extraCandy = Num(0)
    /\ totalCandy = Num(0)
    /\ total = Num(0)
    /\ evolved = FALSE
    /\ count = 0
    /\ snap = <<>>
    /\ ei = 0
    /\ ti = 0
    /\ calls = <<>>

(***************************************************************************)
(* The run of main() from the inventory to its end, on every payload of    *)
(* fewer than MaxNodes nodes in every order, and on the payloads of        *)
(* MaxNodes nodes that list them species by species.                       *)
(***************************************************************************)
Init ==
    /\ trueDiv \in BOOLEAN
    /\ config \in {c \in Configs(BOOLEAN, BOOLEAN, BOOLEAN, 1..MaxEvolutions,
                                      {60}, {{}}) :
                       c.evolve \/ c.transfer}
    /\ evolves_tsv = EvolvesTsv(4)
    /\ payload \in {[pokemon_data |-> WithIds(s), pokemon_family |-> Families(b)] :
                       s \in {t \in SeqsUpTo(Shapes({1}, {IVLow, IVHigh})
                                                 \cup Shapes({2, 3}, {IVLow}), MaxNodes) :
                                  Len(t) = MaxNodes => BySpecies(t)},
                       b \in {5, 8}}
    /\ OptionsParsed
    /\ pc = "get_pokemon"
    /\ pokemon = <<>>
    /\ Idle

Next ==
    \/ GetPokemon
    \/ NoPokemon
    \/ SelectAboveIv
    \/ SelectBest
    \/ UniqueCounts
    \/ EvolveCountsFor
    \/ EvolveCountsWhile
    \/ EvolveCountsStore
    \/ NeededCounts
    \/ EvolveStart
    \/ EvolveWhile
    \/ EvolveSkip
    \/ EvolveCall
    \/ EvolveForEnd
    \/ TransferStart
    \/ TransferSkip
    \/ TransferCall
    \/ TransferForEnd

Spec == Init /\ [][Next]_vars

\* the run on the payloads of up to MaxRunNodes nodes, where main(), one
\* sequential program, takes its next step whenever it has one
MaxRunNodes == 2

InitRun ==
    /\ trueDiv \in BOOLEAN
    /\ config \in {c \in Configs(BOOLEAN, BOOLEAN, BOOLEAN, 1..MaxEvolutions,
                                      {60}, {{}}) :
                       c.evolve \/ c.transfer}
    /\ evolves_tsv = EvolvesTsv(4)
    /\ payload \in {[pokemon_data |-> WithIds(s), pokemon_family |-> Families(b)] :
                       s \in SeqsUpTo(Shapes({1}, {IVLow, IVHigh})
                                          \cup Shapes({2, 3}, {IVLow}), MaxRunNodes),
                       b \in {5, 8}}
    /\ OptionsParsed
    /\ pc = "get_pokemon"
    /\ pokemon = <<>>
    /\ Idle

FairRun == InitRun /\ [][Next]_vars /\ WF_vars(Next)

(***************************************************************************)
(* get_pokemon alone, on payloads with species the tables lack and with    *)
(* family records missing.                                                 *)
(***************************************************************************)
InitSnapshot ==
    /\ trueDiv \in BOOLEAN
    /\ config \in Configs({FALSE}, {FALSE}, {FALSE}, {1}, {101}, {{}})
    /\ evolves_tsv = EvolvesTsv(4)
    /\ payload \in {[pokemon_data |-> WithIds(s), pokemon_family |-> f] :
                       s \in SeqsUpTo(Shapes({1, 2, 3, 8, 9}, {IVZero, IVLow}), MaxNodes),
                       f \in {Families(0), Families(5), <<[family_id |-> 3]>>,
                              <<[family_id |-> 1, candy |-> 5], [family_id |-> 3],
                                [family_id |-> 1, candy |-> 8]>>}}
    /\ OptionsParsed
    /\ pc = "get_pokemon"
    /\ pokemon = <<>>
    /\ Idle

NextSnapshot == GetPokemon

SpecSnapshot == InitSnapshot /\ [][NextSnapshot]_vars

(***************************************************************************)
(* The selection alone, in both modes, on every list of up to MaxSelect.   *)
(***************************************************************************)
InitSelect ==
    /\ trueDiv \in BOOLEAN
    /\ config \in Configs(BOOLEAN, {FALSE}, {FALSE}, {1}, {60, 101}, {{}, {50}})
    /\ evolves_tsv = EvolvesTsv(4)
    /\ payload \in {[pokemon_data |-> WithIds(s), pokemon_family |-> Families(5)] :
                       s \in SeqsUpTo(Shapes({1, 3}, {IVLow, IVMid, IVHigh})
                                          \cup {[pokemon_id |-> 1, cp |-> 90,
                                                 individual_attack |-> 9]},
                                      MaxSelect)}
    /\ OptionsParsed
    /\ pc = "get_pokemon"
    /\ pokemon = <<>>
    /\ Idle

NextSelect ==
    \/ GetPokemon
    \/ NoPokemon
    \/ SelectAboveIv
    \/ SelectBest

SpecSelect == InitSelect /\ [][NextSelect]_vars

(***************************************************************************)
(* get_evolve_counts alone: one base form, every balance up to MaxCandy    *)
(* and every cost up to MaxCost (and 12, a common cost of the game).       *)
(***************************************************************************)
InitEconomics ==
    /\ trueDiv \in BOOLEAN
    /\ config \in Configs({FALSE}, {FALSE}, {FALSE}, {1}, {101}, {{}})
    /\ evolves_tsv \in {EvolvesTsv(c) : c \in (1..MaxCost) \cup {12}}
    /\ payload \in {[pokemon_data |-> WithIds(<<("pokemon_id" :> 1) @@ IVHigh>>),
                     pokemon_family |-> Families(b)] : b \in 0..MaxCandy}
    /\ OptionsParsed
    /\ pc = "get_pokemon"
    /\ pokemon = <<>>
    /\ Idle

NextEconomics ==
    \/ GetPokemon
    \/ SelectBest
    \/ UniqueCounts
    \/ EvolveCountsFor
    \/ EvolveCountsWhile
    \/ EvolveCountsStore
    \/ NeededCounts

SpecEconomics == InitEconomics /\ [][NextEconomics]_vars

\* main() is one sequential program: it takes its next step whenever it has one
FairEconomics == SpecEconomics /\ WF_vars(NextEconomics)

(***************************************************************************)
(* pokeIV-gui.py: init_config and main.  A string that is split or         *)
(* lower-cased is a sequence of characters; None is the empty set and a    *)
(* given value v is {v}.  Of the options, those that decide the way        *)
(* through init_config are kept: auth_service, white_list, black_list,     *)
(* evolve_list.                                                            *)
(***************************************************************************)
MaxWindowCalls == 2

Chars_ptc == <<"p", "t", "c">>

Chars_google == <<"g", "o", "o", "g", "l", "e">>

Chars_facebook == <<"f", "a", "c", "e", "b", "o", "o", "k">>

\* s.split(',')
RECURSIVE Split(_)
Split(s) ==
    LET commas == {i \in 1..Len(s) : s[i] = ","}
    IN IF commas = {} THEN <<s>>
       ELSE LET i == CHOOSE c \in commas : \A d \in commas : c <= d
            IN <<SubSeq(s, 1, i - 1)>> \o Split(SubSeq(s, i + 1, Len(s)))

\* x.lower()
Lower(x) == [i \in 1..Len(x) |-> IF x[i] = "B" THEN "b" ELSE x[i]]

\* lines 76-85: an option the command line left None takes the value of
\* config.json, if that holds a true value for it; the lists are split at ','
MergeLoad(a, l) ==
    [k \in DOMAIN a |->
        IF k \in DOMAIN l /\ a[k] = {} /\ l[k] # <<>>
        THEN IF k \in {"black_list", "white_list"} THEN {Split(l[k])} ELSE {l[k]}
        ELSE a[k]]

\* lines 112-115
LowerList(v) == {[i \in 1..Len(x) |-> Lower(x[i])] : x \in v}

\* init_config without the test of lines 104-106
init_config_lists_unchecked(a, l) ==
    IF a.auth_service = {} /\ "auth_service" \notin DOMAIN l
    THEN [raised |-> TRUE, config |-> {}]
    ELSE LET c == MergeLoad(a, l)
         IN IF c.auth_service \cap {Chars_ptc, Chars_google} = {}
            THEN [raised |-> FALSE, config |-> {}]
            ELSE IF c.evolve_list # {}
            THEN [raised |-> FALSE, config |-> {}]
            ELSE [raised |-> FALSE,
                  config |-> {[c EXCEPT !.white_list = LowerList(c.white_list),
                                         !.black_list = LowerList(c.black_list)]}]

\* init_config of pokeIV-gui.py: the configuration ({} for None), or
\* SystemExit when parse_args lacks a required option (lines 59-61, 74)
init_config(a, l) ==
    IF a.auth_service = {} /\ "auth_service" \notin DOMAIN l
    THEN [raised |-> TRUE, config |-> {}]
    ELSE LET c == MergeLoad(a, l)
         IN IF c.auth_service \cap {Chars_ptc, Chars_google} = {}
            THEN [raised |-> FALSE, config |-> {}]
            ELSE IF c.white_list # {} /\ c.black_list # {}
            THEN [raised |-> FALSE, config |-> {}]
            ELSE IF c.evolve_list # {}
            THEN [raised |-> FALSE, config |-> {}]
            ELSE [raised |-> FALSE,
                  config |-> {[c EXCEPT !.white_list = LowerList(c.white_list),
                                         !.black_list = LowerList(c.black_list)]}]

\* main, lines 123-125: config = init_config(); if not config: return
GuiInitConfig ==
    /\ pc = "init_config"
    /\ LET r == init_config(args, load)
       IN /\ config' = r.config
          /\ IF r.raised THEN pc' = "crashed" /\ error' = "SystemExit"
             ELSE IF r.config = {} THEN pc' = "done" /\ UNCHANGED error
             ELSE pc' = "window" /\ UNCHANGED error
    /\ UNCHANGED <<trueDiv, args, load, evolves_tsv, payload, pokemon, best, extras,
                   uniques, evolves, needed, ec_i, extraCandy, totalCandy, total,
                   evolved, count, snap, ei, ti, calls>>

\* main, lines 127-151: the window runs with the api in hand and issues the
\* mutations its user asks for (the code of the window is not in src/)
GuiWindowCall ==
    /\ pc = "window"
    /\ Len(calls) < MaxWindowCalls
    /\ \E op \in {"evolve", "release"}, res \in {"ok", "failed"} :
          calls' = Append(calls, [op |-> op, id |-> 1, res |-> res])
    /\ UNCHANGED <<trueDiv, args, load, config, evolves_tsv, payload, pc, error, pokemon,
                   best, extras, uniques, evolves, needed, ec_i, extraCandy,
                   totalCandy, total, evolved, count, snap, ei, ti>>

\* line 151: mainloop returns when the window is closed
GuiWindowClose ==
    /\ pc = "window"
    /\ pc' = "done"
    /\ UNCHANGED <<trueDiv, args, load, config, evolves_tsv, payload, error, pokemon,
                   best, extras, uniques, evolves, needed, ec_i, extraCandy,
                   totalCandy, total, evolved, count, snap, ei, ti, calls>>

\* None, or the one value given
Opt(vs) == {{}} \cup {{v} : v \in vs}

InitGui ==
    /\ trueDiv = TRUE
    /\ args \in [auth_service : Opt({Chars_ptc, Chars_facebook}),
                 white_list : Opt({<< <<"B">> >>}),
                 black_list : Opt({<< <<"1">>, <<"b">> >>}),
                 evolve_list : Opt({<< <<"1">> >>})]
    /\ load \in UNION {[ks -> {Chars_ptc, <<>>, <<"1", ",", "B">>}] :
                          ks \in SUBSET {"auth_service", "white_list", "black_list"}}
    /\ \A k \in DOMAIN load : (k = "auth_service") <=> (load[k] = Chars_ptc)
    /\ config = {}
    /\ evolves_tsv = EvolvesTsv(4)
    /\ payload = [pokemon_data |-> <<>>, pokemon_family |-> <<>>]
    /\ pc = "init_config"
    /\ pokemon = <<>>
    /\ Idle

NextGui ==
    \/ GuiInitConfig
    \/ GuiWindowCall
    \/ GuiWindowClose

SpecGui == InitGui /\ [][NextGui]_vars

(***************************************************************************)
(* Properties                                                              *)
(***************************************************************************)
\* the pokemon of the inventory, in the order of the payload
Snapshot == IF GetPokemonRaises(payload) THEN <<>> ELSE get_pokemon(payload)

\* the remote mutations of one kind issued so far
Issued(op) == {i \in 1..Len(calls) : calls[i].op = op}

Confirmed(op) == {i \in Issued(op) : calls[i].res = "ok"}

RECURSIVE SumOf(_)
SumOf(f) ==
    IF DOMAIN f = {} THEN 0
    ELSE LET k == CHOOSE x \in DOMAIN f : TRUE
         IN f[k] + SumOf([x \in DOMAIN f \ {k} |-> f[x]])

\* C1: the evolve loop issues at most max_evolutions evolve mutations in a run.
C1_EvolveCapRespected == Cardinality(Issued("evolve")) <= config.max_evolutions

\* what each loop has applied to the local state: the evolve loop removes the
\* pokemon from the list, the transfer loop takes one off uniques
AppliedLocally(op) ==
    IF op = "evolve" THEN Len(Snapshot) - Len(pokemon)
    ELSE SumOf(get_unique_counts(Snapshot)) - SumOf(uniques) - (Len(Snapshot) - Len(pokemon))

\* C2: when a mutation of a loop fails, only the mutations confirmed before it
\* are applied locally and the loop issues no further mutation.
C2_FailureStopsLoop ==
    \A op \in {"evolve", "release"} : \A k \in Issued(op) :
        calls[k].res # "ok" =>
            /\ \A j \in Issued(op) : j <= k
            /\ AppliedLocally(op) = Cardinality(Confirmed(op))

\* the selection has been run (and returned or raised)
SelectionOver == pc \notin {"get_pokemon", "select"} /\ Len(Snapshot) > 0

SelectionRaised == pc = "crashed" /\ error = "NameError"

IsPartition(keep, surplus, all) ==
    /\ Range(keep) \cap Range(surplus) = {}
    /\ Range(keep) \cup Range(surplus) = Range(all)
    /\ Len(keep) + Len(surplus) = Len(all)

\* C3: in both modes the selection completes, and best and extras are disjoint
\* and together hold every pokemon of the inventory exactly once.
C3_SelectionPartitions ==
    SelectionOver => ~ SelectionRaised /\ IsPartition(best, extras, Snapshot)

\* the pokemon of species sp that comes first by iv descending, ties by the
\* order of the snapshot
FirstOfSpecies(sp) ==
    LET of == {i \in 1..Len(Snapshot) : Snapshot[i].number = sp}
        i0 == CHOOSE i \in of : \A j \in of :
                  \/ IvSum(Snapshot[i]) > IvSum(Snapshot[j])
                  \/ IvSum(Snapshot[i]) = IvSum(Snapshot[j]) /\ i <= j
    IN Snapshot[i0]

\* C4: in best-of-family mode best holds, for every species of the inventory,
\* the pokemon of that species that comes first by iv descending (ties by
\* snapshot order), whatever its iv.
C4_BestOfEachSpeciesKept ==
    (SelectionOver /\ ~ config.hard_minimum) =>
        \A sp \in {Snapshot[i].number : i \in 1..Len(Snapshot)} :
            FirstOfSpecies(sp) \in Range(best)

\* get_best_pokemon has returned its list
BestReturned == pc = "unique_counts" /\ ~ config.hard_minimum

\* the list get_best_pokemon returns, when it returns, holds the first of
\* every species
BestOfEachSpeciesWhenReturned ==
    BestReturned =>
        \A sp \in {Snapshot[i].number : i \in 1..Len(Snapshot)} :
            FirstOfSpecies(sp) \in Range(best)

\* it returns with two species and a kept pokemon below minimumIV
BestReturnedBelowMinimum ==
    /\ BestReturned
    /\ Cardinality({Snapshot[i].number : i \in 1..Len(Snapshot)}) >= 2
    /\ \E i \in 1..Len(best) : ~ IvAtLeast(best[i], config.minimumIV)

\* C5: get_evolve_counts comes to its end for every balance and every cost.
C5_EvolveCountsTerminates == <>(pc = "evolve_start")

\* the while loop of a cost of 3 or less never leaves once entered: a turn
\* that finds extraCandy/cost >= 1 leaves extraCandy/cost >= 1
EvolveCountsLoopsOn ==
    [][(/\ pc = "ec_while"
        /\ pokemon[ec_i].cost <= 3
        /\ RGeq(PyDiv(extraCandy, pokemon[ec_i].cost), Num(1)))
          => /\ pc' = "ec_while"
             /\ RGeq(PyDiv(extraCandy', pokemon[ec_i].cost), Num(1))]_vars

\* the loop is entered with cost 1 and candy 1
EvolveCountsLoopEntered ==
    /\ pc = "ec_while"
    /\ pokemon[ec_i].cost = 1
    /\ pokemon[ec_i].candy = 1
    /\ RGeq(PyDiv(extraCandy, pokemon[ec_i].cost), Num(1))

\* the upgrades a balance b pays for at cost c, done one by one: each takes
\* c candy and gives 2 back
RECURSIVE SimUpgrades(_, _)
SimUpgrades(b, c) == IF b >= c THEN 1 + SimUpgrades(b - c + 2, c) ELSE 0

\* the whole upgrades get_evolve_counts reports for a species
WholeEvolves(sp) == IF sp \in DOMAIN evolves THEN Floor(evolves[sp]) ELSE 0

\* C6: the integer part of the count get_evolve_counts returns is the number
\* of upgrades the balance pays for when they are done one by one.
C6_CountIsExecutable ==
    pc = "evolve_start" =>
        WholeEvolves(Snapshot[1].number) = SimUpgrades(Snapshot[1].candy, Snapshot[1].cost)

\* the base forms of species f in a list
BaseForms(pok, f) == {i \in 1..Len(pok) : pok[i].number = f /\ pok[i].family = f}

\* C7: once planned, needed[f] = evolves[f] - uniques[f] for every family of
\* needed, after every mutation of the evolve loop and of the transfer loop.
C7_DeficitMaintained ==
    \A f \in DOMAIN needed : needed[f] = RSub(evolves[f], Num(uniques[f]))

\* the releases of a pokemon of species f that took one off uniques[f]
ReleasesApplied(f) ==
    {k \in Issued("release") :
        /\ calls[k].res # "raised"
        /\ \E i \in 1..Len(extras) : extras[i].id = calls[k].id /\ extras[i].number = f}

\* C7 as amended: needed[f] is the deficit of plan time.  It equals
\* evolves[f] - uniques[f] at plan time and after every mutation of the evolve
\* loop, where uniques[f] counts the base forms of f left in the list; each
\* transfer of an f takes one off uniques[f] alone.
C7_DeficitIsOfPlanTime ==
    \A f \in DOMAIN needed :
        /\ needed[f] = RSub(evolves[f], Num(uniques[f] + Cardinality(ReleasesApplied(f))))
        /\ Issued("release") = {} => uniques[f] = Cardinality(BaseForms(pokemon, f))

\* an evolve mutation has been applied and the plan is still in balance
C7_Witness ==
    /\ Confirmed("evolve") # {}
    /\ Issued("release") = {}
    /\ \E f \in DOMAIN needed : uniques[f] > 0 /\ needed[f] = RSub(evolves[f], Num(uniques[f]))

\* the species of p has more base forms left than upgrades it can pay for
ExcessBaseForm(p) ==
    /\ p.number \in DOMAIN evolves
    /\ p.number \in DOMAIN uniques
    /\ RGt(Num(uniques[p.number]), evolves[p.number])

\* C8: when the transfer loop comes to an extra whose species has more base
\* forms than affordable upgrades, its step issues the release of that extra.
C8_ExcessBaseFormReleased ==
    [][(pc = "transfer_for" /\ ti <= Len(extras) /\ ExcessBaseForm(extras[ti])) =>
          /\ Len(calls') = Len(calls) + 1
          /\ calls'[Len(calls')].op = "release"
          /\ calls'[Len(calls')].id = extras[ti].id]_vars

\* the last mutation released an excess base form
C8_Witness ==
    /\ pc = "transfer_for"
    /\ calls # <<>>
    /\ LET c == calls[Len(calls)]
       IN /\ c.op = "release"
          /\ c.res = "ok"
          /\ \E i \in 1..Len(extras) :
                /\ extras[i].id = c.id
                /\ extras[i].number \in DOMAIN evolves
                /\ extras[i].number \in DOMAIN uniques
                /\ RGt(Num(uniques[extras[i].number] + 1), evolves[extras[i].number])

\* C9: a payload with a species the tables lack makes get_pokemon fail, and
\* no list of pokemon comes back.
C9_UnknownSpeciesIsFatal ==
    (/\ pc # "get_pokemon"
     /\ \E i \in 1..Len(payload.pokemon_data) : AddPokemonRaises(payload.pokemon_data[i]))
        => pc = "crashed" /\ pokemon = <<>>

\* C10: get_best_pokemon puts a pokemon that is not the first of its species
\* into best exactly when its iv passes minimumIV or its cp passes a given
\* cp_override; otherwise it returns and the pokemon is an extra.
C10_DuplicatePlacement ==
    (SelectionOver /\ ~ config.hard_minimum) =>
        \A i \in 1..Len(Snapshot) :
            LET p == Snapshot[i]
            IN p # FirstOfSpecies(p.number) =>
                  IF \/ IvAtLeast(p, config.minimumIV)
                     \/ \E v \in config.cp_override : p.cp >= v
                  THEN p \in Range(best)
                  ELSE ~ SelectionRaised /\ p \in Range(extras)

\* C11: in hard-minimum mode best holds exactly the pokemon whose iv is at
\* least minimumIV, however many of a species that makes, and extras holds
\* every other pokemon (of the list as the selection has just left it).
C11_HardMinimumKeepsByIv ==
    (config.hard_minimum /\ pc = "unique_counts") =>
        /\ Range(best) = {p \in Range(pokemon) : IvSum(p) * 100 >= 45 * config.minimumIV}
        /\ Range(extras) = {p \in Range(pokemon) : IvSum(p) * 100 < 45 * config.minimumIV}
        /\ Len(best) + Len(extras) = Len(pokemon)

\* hard-minimum mode kept two pokemon of one species, one of them with an iv
\* of exactly minimumIV, and none of another species
C11_Witness ==
    /\ SelectionOver
    /\ config.hard_minimum
    /\ \E i, j \in 1..Len(best) :
          /\ i # j
          /\ best[i].number = best[j].number
          /\ IvSum(best[i]) * 100 = 45 * config.minimumIV
    /\ \E i \in 1..Len(extras) : \A j \in 1..Len(best) : best[j].number # extras[i].number

\* the option is given on the command line or, with a value, in config.json
Given(k) == args[k] # {} \/ (k \in DOMAIN load /\ load[k] # <<>>)

\* C12: with a white_list and a black_list both given, init_config fails and
\* the run ends with no evolve and no release mutation issued.
C12_ConflictingListsStopRun ==
    (Given("white_list") /\ Given("black_list")) =>
        /\ calls = <<>>
        /\ config = {}
        /\ pc \in {"init_config", "done", "crashed"}

\* the run has ended on a white_list of the command line and a black_list of
\* config.json, with a valid auth_service and no evolve_list
C12_Witness ==
    /\ pc = "done"
    /\ error = ""
    /\ args.white_list # {}
    /\ args.black_list = {}
    /\ Given("black_list")
    /\ args.auth_service = {Chars_ptc}
    /\ args.evolve_list = {}
    /\ calls = <<>>

\* the pokemon of the inventory with the remote id of a call
Target(k) == CHOOSE p \in Range(Snapshot) : p.id = calls[k].id

\* the candy of the family of call k's pokemon when the call is issued: the
\* candy of the inventory, less cost - 2 for every evolve done before it
BalanceBefore(k) ==
    LET p == Target(k)
        earlier == {j \in Confirmed("evolve") : j < k /\ Target(j).family = p.family}
    IN p.candy - Cardinality(earlier) * (p.cost - 2)

\* C13: every evolve mutation is issued with at least the cost of the
\* evolution in candy, so the candy of a family never falls below 0.
C13_NoOverdraw ==
    \A k \in Issued("evolve") :
        /\ BalanceBefore(k) >= Target(k).cost
        /\ BalanceBefore(k) - Target(k).cost + 2 >= 0

\* the deficit of a species now: evolves - uniques, floored
Deficit(id) == Floor(RSub(evolves[id], Num(uniques[id])))

\* the evolve loop has come to a pokemon it is about to evolve
AboutToEvolve == pc = "evolve_for" /\ ei <= Len(snap) /\ Evolvable(snap[ei])

\* C14: a pokemon the evolve loop evolves is of a species whose deficit,
\* evolves - uniques floored, is above 0 when the mutation is issued.
C14_EvolvesOnlyOnDeficit == AboutToEvolve => Deficit(snap[ei].number) > 0

\* the step issues an evolve mutation
IssuesEvolve == Len(calls') = Len(calls) + 1 /\ calls'[Len(calls')].op = "evolve"

\* C14 as the code has it: a pokemon is evolved only while it is in the list,
\* is a base form with an entry in evolves, and uniques of its species is
\* above 0 (the meaning of evolves - needed > 0); the deficit does not decide.
C14_EvolvesWhileBaseFormsLeft ==
    [][IssuesEvolve =>
          \E i \in 1..Len(pokemon) :
              LET p == pokemon[i]
              IN /\ p.id = calls'[Len(calls')].id
                 /\ p.number = p.family
                 /\ p.number \in DOMAIN evolves
                 /\ uniques[p.number] > 0
                 /\ RSub(evolves[p.number], needed[p.number]) = Num(uniques[p.number])]_vars

\* a pokemon has been evolved whose species had a deficit below 0
C14_Witness ==
    \E k \in Confirmed("evolve") : Floor(needed[Target(k).number]) < 0

\* the transfer loop is at an extra
AtExtra == pc = "transfer_for" /\ ti <= Len(extras)

\* the last step of the transfer loop released the extra it was at
ReleasedLast ==
    /\ pc = "transfer_for"
    /\ ti > 1
    /\ calls # <<>>
    /\ calls[Len(calls)].op = "release"
    /\ calls[Len(calls)].id = extras[ti - 1].id

\* C15: an extra whose species has more base forms left than upgrades
\* (uniques > evolves) is skipped; a release is issued only otherwise.
C15_ExcessIsSkipped ==
    ReleasedLast =>
        LET id == extras[ti - 1].number
        IN (id \in DOMAIN evolves /\ id \in DOMAIN uniques)
              => ~ RGt(Num(uniques[id] + 1), evolves[id])

\* the species has an entry in evolves and in uniques and no more base forms
\* than upgrades
WithinUpgrades(p) ==
    /\ p.number \in DOMAIN evolves
    /\ p.number \in DOMAIN uniques
    /\ RGeq(evolves[p.number], Num(uniques[p.number]))

\* C15 as the code has it: the step at an extra skips it, issuing nothing,
\* exactly when its species has an entry in evolves and in uniques and
\* uniques <= evolves; otherwise (uniques > evolves, or no entry) it issues
\* the release of that extra.
C15_SkippedWithinUpgrades ==
    [][AtExtra =>
          IF WithinUpgrades(extras[ti])
          THEN calls' = calls /\ ti' = ti + 1
          ELSE /\ Len(calls') = Len(calls) + 1
               /\ calls'[Len(calls')].op = "release"
               /\ calls'[Len(calls')].id = extras[ti].id]_vars

\* the loop has skipped an extra of a species with uniques <= evolves and
\* released another
C15_Witness ==
    /\ pc = "transfer_for"
    /\ \E i \in 1..(ti - 1) :
          /\ WithinUpgrades(extras[i])
          /\ \A k \in 1..Len(calls) : calls[k].id # extras[i].id
    /\ Confirmed("release") # {}

\* the remote ids of the pokemon of a list
Ids(s) == {s[i].id : i \in 1..Len(s)}

\* C16: no release mutation is ever issued for a pokemon of best; the
\* releases go to pokemon of extras, which holds no pokemon of best.
C16_KeptNeverReleased ==
    /\ \A k \in Issued("release") : calls[k].id \notin Ids(best) /\ calls[k].id \in Ids(extras)
    /\ Ids(extras) \cap Ids(best) = {}

\* a pokemon has been released while another of its species is kept
C16_Witness ==
    \E k \in Confirmed("release") : \E i \in 1..Len(best) :
        best[i].number = Target(k).number

\* C17: with evolve and transfer both on, no pokemon is the target of two
\* mutations; the transfer loop releases no pokemon the evolve loop evolved.
C17_OneMutationEach ==
    (config.evolve /\ config.transfer) =>
        \A i, j \in 1..Len(calls) : i # j => calls[i].id # calls[j].id

\* C18: uniques[id] is at least 0 for every species, whatever mutations
\* have been made.
C18_UniquesNotNegative == \A id \in DOMAIN uniques : uniques[id] >= 0

\* as long as no pokemon is the target of two mutations, uniques stays at 0
\* or above
UniquesNotNegativeOnce ==
    (\A i, j \in 1..Len(calls) : i # j => calls[i].id # calls[j].id)
        => \A id \in DOMAIN uniques : uniques[id] >= 0

\* C19: when every release succeeds the transfer loop goes through all of
\* extras, releasing or skipping each, and raises no error of its own, also
\* for an extra that is not a base form.
C19_TransferLoopGoesThrough ==
    (\A k \in Issued("release") : calls[k].res = "ok") =>
        /\ error # "KeyError"
        /\ (pc = "done" /\ config.transfer /\ SelectionOver) => ti = Len(extras) + 1

\* C20: once the plan is made, and as long as every remote call returns,
\* the run goes through the evolve loop and the transfer loop and reaches
\* its end.
C20_RunReachesDone ==
    (pc = "evolve_start") ~> (pc = "done" \/ error = "RemoteError")

\* the run comes to an end, be it by an exception
RunStops == (pc = "evolve_start") ~> (pc \in {"done", "crashed"})

\* the evolve loop is left: every pass evolves a pokemon or is the last
EvolveLoopIsLeft ==
    (pc = "evolve_start") ~> (pc \in {"transfer_start", "crashed"})

====
